---- MODULE Spec2Model ----
(***************************************************************************)
(* Model of kubectx's argument resolver (cmd/kubectx/flags.go) and of its  *)
(* context / namespace switch engine (cmd/kubectx/switch.go).              *)
(*                                                                         *)
(* Strings of the program are sequences of one-character strings, so that  *)
(* prefix tests, splitting and replacement are computed, not assumed:      *)
(* "a:b" is <<"a", ":", "b">> and the empty string is << >>.               *)
(*                                                                         *)
(* Calls that only fail when the file system fails (reading or writing the *)
(* kubeconfig or a state file, finding the home directory) are modelled as *)
(* succeeding; the namespace existence query is the one collaborator whose *)
(* failure is an input of the model.                                       *)
(***************************************************************************)
EXTENDS Integers, Sequences, FiniteSets, TLC

VARIABLES
    contexts,     \* kubeconfig: the set of context names that exist
    cur,          \* kubeconfig: current-context, << >> when unset
    nsOf,         \* kubeconfig: namespace recorded for each context
    prevCtxFile,  \* state file holding the previous context name
    nsFiles,      \* state files holding the previous namespace, by file name
    windows,      \* isWindows() of the platform the program runs on
    hist,         \* the most recent invocations, oldest first
    argv,         \* the token slice handed to parseArgs (the caller's view)
    interactive,  \* cmdutil.IsInteractiveMode(os.Stdout)
    given,        \* the tokens as they were when parseArgs was called
    op,           \* the Op returned by parseArgs
    parsed,       \* whether parseArgs has returned
    race          \* two switch invocations running at the same time

vars == <<contexts, cur, nsOf, prevCtxFile, nsFiles, windows, hist,
          argv, given, interactive, op, parsed, race>>

engineVars == <<contexts, cur, nsOf, prevCtxFile, nsFiles, windows, hist>>
parseVars == <<argv, given, interactive, op, parsed>>

----------------------------------------------------------------------------
(* Bounds *)

\* number of invocations remembered in hist by the context-level specification
HistLen == 3
\* longest token sequence given to parseArgs
MaxArgs == 4
\* longest list of names given to delete
MaxNames == 3

----------------------------------------------------------------------------
(* Strings *)

Empty == << >>
Dash == <<"-">>
Dot == <<".">>
CtxA == <<"a", ":", "b">>
CtxB == <<"a", "_", "_", "b">>
CtxZ == <<"z">>
Ns1 == <<"n", "s", "1">>
Ns2 == <<"n", "s", "2">>
NsX == <<"n", "s", "x">>

\* the context names of the kubeconfig the model starts from
Contexts == {CtxA, CtxB}
\* every context name an invocation may mention
Names == Contexts \cup {CtxZ}

\* a file that does not exist, and a file holding data
Absent == [exists |-> FALSE, data |-> Empty]
File(data) == [exists |-> TRUE, data |-> data]

RECURSIVE ReplaceColons(_)
\* strings.ReplaceAll(fn, ":", "__")
ReplaceColons(s) ==
    IF s = Empty THEN Empty
    ELSE IF Head(s) = ":" THEN <<"_", "_">> \o ReplaceColons(Tail(s))
         ELSE <<Head(s)>> \o ReplaceColons(Tail(s))

\* NSFile.path: the file name under the fixed kubens state directory
NSFilePath(ctx, win) == IF win THEN ReplaceColons(ctx) ELSE ctx

FileNames == {NSFilePath(c, w) : c \in Names, w \in BOOLEAN}

----------------------------------------------------------------------------
(* The switch engine, as functions of the persisted world                  *)

World == [contexts |-> contexts, cur |-> cur, nsOf |-> nsOf,
          prevCtxFile |-> prevCtxFile, nsFiles |-> nsFiles]

\* the result of a function that failed before changing anything
Res(w, ctx, err, loads, saves, ctxWrites, nsWrites) ==
    [w |-> w, ctx |-> ctx, err |-> err, cfgLoads |-> loads, cfgSaves |-> saves,
     ctxFileWrites |-> ctxWrites, nsFileWrites |-> nsWrites]

\* readLastContext: a missing file reads as the empty string
readLastContext(f) == IF f.exists THEN f.data ELSE Empty

\* writeLastContext: the file now holds value
writeLastContext(value) == File(value)

\* switchContext(name) with the mutation: the previous context is recorded
\* even when the target is already active
switchContextAlwaysRecords(w, name) ==
    LET prev == w.cur IN
    IF name \notin w.contexts
    THEN Res(w, Empty, "NotFound", 1, 0, 0, 0)
    ELSE Res([w EXCEPT !.cur = name, !.prevCtxFile = writeLastContext(prev)],
             name, "", 1, 1, 1, 0)

\* switchContext(name) with the mutation: the active pointer is written
\* before the existence check
switchContextNoExistsCheck(w, name) ==
    LET prev == w.cur
        saved == [w EXCEPT !.cur = name] IN
    IF name \notin w.contexts
    THEN Res(saved, Empty, "NotFound", 1, 1, 0, 0)
    ELSE IF prev # name
         THEN Res([saved EXCEPT !.prevCtxFile = writeLastContext(prev)],
                  name, "", 1, 1, 1, 0)
         ELSE Res(saved, name, "", 1, 1, 0, 0)

\* switchContext(name) with the mutation: the target, not the context that
\* was active, is written to the previous-context file
switchContextRecordsTarget(w, name) ==
    LET prev == w.cur
        saved == [w EXCEPT !.cur = name] IN
    IF name \notin w.contexts
    THEN Res(w, Empty, "NotFound", 1, 0, 0, 0)
    ELSE IF prev # name
         THEN Res([saved EXCEPT !.prevCtxFile = writeLastContext(name)],
                  name, "", 1, 1, 1, 0)
         ELSE Res(saved, name, "", 1, 1, 0, 0)

\* switchContext(name)
switchContext(w, name) ==
    LET prev == w.cur
        saved == [w EXCEPT !.cur = name] IN
    IF name \notin w.contexts
    THEN Res(w, Empty, "NotFound", 1, 0, 0, 0)
    ELSE IF prev # name
         THEN Res([saved EXCEPT !.prevCtxFile = writeLastContext(prev)],
                  name, "", 1, 1, 1, 0)
         ELSE Res(saved, name, "", 1, 1, 0, 0)

\* switchContext, first part: the kubeconfig is parsed, the active context
\* read and the target looked up
ctxLoad(w, name) == [prev |-> w.cur, exists |-> name \in w.contexts]

\* switchContext, second part: the kubeconfig is saved with the target as
\* the active context
ctxSave(w, name) == [w EXCEPT !.cur = name]

\* switchContext, third part, with the mutation: the target is written to
\* the previous-context file
ctxRecordWritesTarget(w, prev, name) ==
    IF prev # name THEN [w EXCEPT !.prevCtxFile = writeLastContext(name)] ELSE w

\* switchContext, third part: the context that was active when the
\* kubeconfig was parsed is written to the previous-context file, unless it
\* is the target
ctxRecord(w, prev, name) ==
    IF prev # name THEN [w EXCEPT !.prevCtxFile = writeLastContext(prev)] ELSE w

\* swapContext() with the mutation: an empty record is not rejected
swapContextNoHistoryCheck(w) ==
    switchContext(w, readLastContext(w.prevCtxFile))

\* swapContext()
swapContext(w) ==
    LET prev == readLastContext(w.prevCtxFile) IN
    IF prev = Empty
    THEN Res(w, Empty, "NoHistory", 0, 0, 0, 0)
    ELSE switchContext(w, prev)

\* the namespaces the cluster has
ClusterNamespaces == {Ns1, Ns2}

\* namespaceExists: "error" when the query itself fails
namespaceExists(ns, queryFails) ==
    IF queryFails THEN "error"
    ELSE IF ns \in ClusterNamespaces THEN "yes" ELSE "no"

\* switchNamespace with the mutation: the namespace is set and saved before
\* the existence check
switchNamespaceSetsFirst(w, ctx, ns, force, queryFails, win) ==
    LET curNS == w.nsOf[ctx]
        f == NSFilePath(ctx, win)
        exists == namespaceExists(ns, queryFails)
        set == [w EXCEPT !.nsOf[ctx] = ns] IN
    IF ctx \notin w.contexts
    THEN Res(w, ctx, "NamespaceOfContext", 0, 0, 0, 0)
    ELSE IF ~force /\ exists = "error"
    THEN Res(set, ctx, "QueryError", 0, 1, 0, 0)
    ELSE IF ~force /\ exists = "no"
    THEN Res(set, ctx, "NamespaceNotFound", 0, 1, 0, 0)
    ELSE IF curNS # ns
         THEN Res([set EXCEPT !.nsFiles[f] = File(curNS)], ctx, "", 0, 1, 0, 1)
         ELSE Res(set, ctx, "", 0, 1, 0, 0)

\* switchNamespace(kc, ctx, ns, force)
switchNamespace(w, ctx, ns, force, queryFails, win) ==
    LET curNS == w.nsOf[ctx]
        f == NSFilePath(ctx, win)
        exists == namespaceExists(ns, queryFails)
        set == [w EXCEPT !.nsOf[ctx] = ns] IN
    IF ctx \notin w.contexts
    THEN Res(w, ctx, "NamespaceOfContext", 0, 0, 0, 0)
    ELSE IF ~force /\ exists = "error"
    THEN Res(w, ctx, "QueryError", 0, 0, 0, 0)
    ELSE IF ~force /\ exists = "no"
    THEN Res(w, ctx, "NamespaceNotFound", 0, 0, 0, 0)
    ELSE IF curNS # ns
         THEN Res([set EXCEPT !.nsFiles[f] = File(curNS)], ctx, "", 0, 1, 0, 1)
         ELSE Res(set, ctx, "", 0, 1, 0, 0)

\* SwitchOp.Run: the context switch, then the namespace switch when one is
\* requested; the counters add up the work of both parts
RunSwitch(w, target, ns, queryFails, win) ==
    LET c == IF target = Dash THEN swapContext(w) ELSE switchContext(w, target) IN
    IF c.err # "" THEN c
    ELSE IF ns = Empty THEN c
    ELSE LET n == switchNamespace(c.w, c.ctx, ns, FALSE, queryFails, win) IN
         [n EXCEPT !.cfgLoads = c.cfgLoads + 1,
                   !.cfgSaves = c.cfgSaves + n.cfgSaves,
                   !.ctxFileWrites = c.ctxFileWrites]

\* UnsetOp.Run: clears the active context pointer and saves
RunUnset(w) == Res([w EXCEPT !.cur = Empty], Empty, "", 1, 1, 0, 0)

\* deleteContext(name): "." names the active context; a name that is no
\* context is an error; otherwise the entry is removed and the file saved
deleteContext(w, name) ==
    LET target == IF name = Dot THEN w.cur ELSE name IN
    IF name = Dot /\ w.cur = Empty
    THEN Res(w, Empty, "NoCurrentContext", 1, 0, 0, 0)
    ELSE IF target \notin w.contexts
    THEN Res(w, target, "NotFound", 1, 0, 0, 0)
    ELSE Res([w EXCEPT !.contexts = @ \ {target}], target, "", 1, 1, 0, 0)

RECURSIVE RunDeleteContinues(_, _)
\* DeleteOp.Run with the mutation: a name that fails is remembered and the
\* names after it are still deleted
RunDeleteContinues(w, names) ==
    IF names = << >> THEN Res(w, Empty, "", 0, 0, 0, 0)
    ELSE LET d == deleteContext(w, Head(names))
             rest == RunDeleteContinues(d.w, Tail(names)) IN
         [rest EXCEPT !.err = IF d.err # "" THEN d.err ELSE rest.err,
                      !.cfgLoads = @ + d.cfgLoads,
                      !.cfgSaves = @ + d.cfgSaves]

RECURSIVE RunDelete(_, _)
\* DeleteOp.Run: the names in order; the first name that cannot be deleted
\* ends the invocation with its error
RunDelete(w, names) ==
    IF names = << >> THEN Res(w, Empty, "", 0, 0, 0, 0)
    ELSE LET d == deleteContext(w, Head(names)) IN
         IF d.err # "" THEN d
         ELSE LET rest == RunDelete(d.w, Tail(names)) IN
              [rest EXCEPT !.cfgLoads = @ + d.cfgLoads,
                           !.cfgSaves = @ + d.cfgSaves]

----------------------------------------------------------------------------
(* The argument resolver                                                   *)

FlagN == <<"-", "n">>
FlagNamespace == <<"-", "-", "n", "a", "m", "e", "s", "p", "a", "c", "e">>
FlagD == <<"-", "d">>
FlagH == <<"-", "h">>
FlagHelp == <<"-", "-", "h", "e", "l", "p">>
FlagV == <<"-", "V">>
FlagVersion == <<"-", "-", "v", "e", "r", "s", "i", "o", "n">>
FlagC == <<"-", "c">>
FlagCurrent == <<"-", "-", "c", "u", "r", "r", "e", "n", "t">>
FlagU == <<"-", "u">>
FlagUnset == <<"-", "-", "u", "n", "s", "e", "t">>
FlagX == <<"-", "x">>
RenameXZ == <<"x", "=", "z">>

\* the Op values; the fields an Op does not have are empty
MkOp(kind) ==
    [kind |-> kind, target |-> Empty, namespace |-> Empty, names |-> << >>,
     new |-> Empty, old |-> Empty, err |-> ""]
UnsupportedOp(err) == [MkOp("Unsupported") EXCEPT !.err = err]
SwitchOp(target, namespace) ==
    [MkOp("Switch") EXCEPT !.target = target, !.namespace = namespace]
DeleteOp(names) == [MkOp("Delete") EXCEPT !.names = names]
RenameOp(new, old) == [MkOp("Rename") EXCEPT !.new = new, !.old = old]

\* strings.HasPrefix(v, "-")
HasDashPrefix(v) == Len(v) >= 1 /\ v[1] = "-"

\* parseRenameSyntax: NEW=OLD with exactly one "=", NEW and OLD not empty
parseRenameSyntax(v) ==
    LET eqs == {i \in 1..Len(v) : v[i] = "="} IN
    IF Cardinality(eqs) # 1 THEN [ok |-> FALSE, new |-> Empty, old |-> Empty]
    ELSE LET i == CHOOSE j \in eqs : TRUE IN
         IF i = 1 \/ i = Len(v)
         THEN [ok |-> FALSE, new |-> Empty, old |-> Empty]
         ELSE [ok |-> TRUE, new |-> SubSeq(v, 1, i - 1),
               old |-> SubSeq(v, i + 1, Len(v))]

IsNamespaceFlag(t) == t = FlagN \/ t = FlagNamespace

\* the index of the first namespace flag of a, 0 when there is none
\* (the scanning loop of parseArgs)
NamespaceIndex(a) ==
    LET hits == {i \in 1..Len(a) : IsNamespaceFlag(a[i])} IN
    IF hits = {} THEN 0 ELSE CHOOSE i \in hits : \A j \in hits : i <= j

\* append(argv[:i], argv[i+2:]...): the flag and its value removed
RemainingArgs(a, i) == SubSeq(a, 1, i - 1) \o SubSeq(a, i + 2, Len(a))

\* the caller's slice after that append, which writes into the array the
\* caller's slice shares: the tokens after the value move two places left,
\* the last two places keep what they held
ArgvAfterAppend(a, i) == RemainingArgs(a, i) \o SubSeq(a, Len(a) - 1, Len(a))

\* the classification of the one token that remains
ClassifyOne(v, namespace) ==
    IF v = FlagHelp \/ v = FlagH THEN MkOp("Help")
    ELSE IF v = FlagVersion \/ v = FlagV THEN MkOp("Version")
    ELSE IF v = FlagCurrent \/ v = FlagC THEN MkOp("Current")
    ELSE IF v = FlagUnset \/ v = FlagU THEN MkOp("Unset")
    ELSE IF parseRenameSyntax(v).ok
    THEN RenameOp(parseRenameSyntax(v).new, parseRenameSyntax(v).old)
    ELSE IF HasDashPrefix(v) /\ v # Dash THEN UnsupportedOp("unsupported option")
    ELSE SwitchOp(v, namespace)

\* parseArgs, from the point where the namespace flag has been looked for
ResolveRemaining(remaining, namespace, inter) ==
    IF Len(remaining) = 0
    THEN IF namespace # Empty THEN UnsupportedOp("context name is required")
         ELSE IF inter THEN MkOp("InteractiveSwitch") ELSE MkOp("List")
    ELSE IF Len(remaining) = 1 THEN ClassifyOne(remaining[1], namespace)
    ELSE UnsupportedOp("too many arguments")

\* parseArgs with the mutation: only the tokens after the namespace value
\* are kept
parseArgsDropsLeading(a, inter) ==
    LET i == NamespaceIndex(a) IN
    IF Len(a) = 0
    THEN [op |-> IF inter THEN MkOp("InteractiveSwitch") ELSE MkOp("List"),
          argv |-> a]
    ELSE IF a[1] = FlagD
    THEN [op |-> IF Len(a) = 1
                 THEN IF inter THEN MkOp("InteractiveDelete")
                      ELSE UnsupportedOp("'-d' needs arguments")
                 ELSE DeleteOp(Tail(a)),
          argv |-> a]
    ELSE IF i = 0 THEN [op |-> ResolveRemaining(a, Empty, inter), argv |-> a]
    ELSE IF i + 1 > Len(a)
    THEN [op |-> UnsupportedOp("requires a namespace argument"), argv |-> a]
    ELSE [op |-> ResolveRemaining(SubSeq(a, i + 2, Len(a)), a[i + 1], inter),
          argv |-> a]

\* parseArgs with the mutation: a namespace flag that is the last token is
\* not reported, the token is left among the remaining ones
parseArgsIgnoresTrailingFlag(a, inter) ==
    LET i == NamespaceIndex(a) IN
    IF Len(a) = 0
    THEN [op |-> IF inter THEN MkOp("InteractiveSwitch") ELSE MkOp("List"),
          argv |-> a]
    ELSE IF a[1] = FlagD
    THEN [op |-> IF Len(a) = 1
                 THEN IF inter THEN MkOp("InteractiveDelete")
                      ELSE UnsupportedOp("'-d' needs arguments")
                 ELSE DeleteOp(Tail(a)),
          argv |-> a]
    ELSE IF i = 0 \/ i + 1 > Len(a)
    THEN [op |-> ResolveRemaining(a, Empty, inter), argv |-> a]
    ELSE [op |-> ResolveRemaining(RemainingArgs(a, i), a[i + 1], inter),
          argv |-> ArgvAfterAppend(a, i)]

\* parseArgs with the mutation: the namespace flag is looked for and removed
\* before the delete flag is tested
parseArgsScansBeforeDelete(a, inter) ==
    LET i == NamespaceIndex(a)
        found == i # 0 /\ i + 1 <= Len(a)
        rest == IF found THEN RemainingArgs(a, i) ELSE a
        after == IF found THEN ArgvAfterAppend(a, i) ELSE a IN
    IF Len(a) = 0
    THEN [op |-> IF inter THEN MkOp("InteractiveSwitch") ELSE MkOp("List"),
          argv |-> a]
    ELSE IF i # 0 /\ i + 1 > Len(a)
    THEN [op |-> UnsupportedOp("requires a namespace argument"), argv |-> a]
    ELSE IF Len(rest) >= 1 /\ rest[1] = FlagD
    THEN [op |-> IF Len(rest) = 1
                 THEN IF inter THEN MkOp("InteractiveDelete")
                      ELSE UnsupportedOp("'-d' needs arguments")
                 ELSE DeleteOp(Tail(rest)),
          argv |-> after]
    ELSE [op |-> ResolveRemaining(rest, IF found THEN a[i + 1] ELSE Empty, inter),
          argv |-> after]

\* the index of the last namespace flag of a, 0 when there is none
LastNamespaceIndex(a) ==
    LET hits == {i \in 1..Len(a) : IsNamespaceFlag(a[i])} IN
    IF hits = {} THEN 0 ELSE CHOOSE i \in hits : \A j \in hits : i >= j

\* parseArgs with the mutation: the scan does not stop at the first match,
\* so the last namespace flag is the one honoured
parseArgsUsesLastFlag(a, inter) ==
    LET i == LastNamespaceIndex(a) IN
    IF Len(a) = 0
    THEN [op |-> IF inter THEN MkOp("InteractiveSwitch") ELSE MkOp("List"),
          argv |-> a]
    ELSE IF a[1] = FlagD
    THEN [op |-> IF Len(a) = 1
                 THEN IF inter THEN MkOp("InteractiveDelete")
                      ELSE UnsupportedOp("'-d' needs arguments")
                 ELSE DeleteOp(Tail(a)),
          argv |-> a]
    ELSE IF i = 0 THEN [op |-> ResolveRemaining(a, Empty, inter), argv |-> a]
    ELSE IF i + 1 > Len(a)
    THEN [op |-> UnsupportedOp("requires a namespace argument"), argv |-> a]
    ELSE [op |-> ResolveRemaining(RemainingArgs(a, i), a[i + 1], inter),
          argv |-> ArgvAfterAppend(a, i)]

\* parseArgs(argv): the Op, and the caller's slice as parseArgs leaves it
parseArgs(a, inter) ==
    LET i == NamespaceIndex(a) IN
    IF Len(a) = 0
    THEN [op |-> IF inter THEN MkOp("InteractiveSwitch") ELSE MkOp("List"),
          argv |-> a]
    ELSE IF a[1] = FlagD
    THEN [op |-> IF Len(a) = 1
                 THEN IF inter THEN MkOp("InteractiveDelete")
                      ELSE UnsupportedOp("'-d' needs arguments")
                 ELSE DeleteOp(Tail(a)),
          argv |-> a]
    ELSE IF i = 0 THEN [op |-> ResolveRemaining(a, Empty, inter), argv |-> a]
    ELSE IF i + 1 > Len(a)
    THEN [op |-> UnsupportedOp("requires a namespace argument"), argv |-> a]
    ELSE [op |-> ResolveRemaining(RemainingArgs(a, i), a[i + 1], inter),
          argv |-> ArgvAfterAppend(a, i)]

----------------------------------------------------------------------------
(* Invocations of the switch engine                                        *)

\* the last keep entries of s
LastN(s, keep) ==
    IF Len(s) <= keep THEN s ELSE SubSeq(s, Len(s) - keep + 1, Len(s))

Entry(kind, target, ns, queryFails, names, r) ==
    [kind |-> kind, target |-> target, ns |-> ns, queryFails |-> queryFails,
     names |-> names, pre |-> World, err |-> r.err, ctx |-> r.ctx,
     cfgLoads |-> r.cfgLoads, cfgSaves |-> r.cfgSaves,
     ctxFileWrites |-> r.ctxFileWrites, nsFileWrites |-> r.nsFileWrites]

Apply(r, entry, keep) ==
    /\ contexts' = r.w.contexts
    /\ cur' = r.w.cur
    /\ nsOf' = r.w.nsOf
    /\ prevCtxFile' = r.w.prevCtxFile
    /\ nsFiles' = r.w.nsFiles
    /\ hist' = LastN(Append(hist, entry), keep)
    /\ UNCHANGED <<windows, parseVars, race>>

\* one invocation `kubectx TARGET [-n NS]`
SwitchOp_Run(target, ns, queryFails, keep) ==
    LET r == RunSwitch(World, target, ns, queryFails, windows) IN
    Apply(r, Entry("switch", target, ns, queryFails, << >>, r), keep)

\* one invocation `kubectx -u`
UnsetOp_Run(keep) ==
    LET r == RunUnset(World) IN
    Apply(r, Entry("unset", Empty, Empty, FALSE, << >>, r), keep)

\* one invocation `kubectx -d NAME...`
DeleteOp_Run(names, keep) ==
    LET r == RunDelete(World, names) IN
    Apply(r, Entry("delete", Empty, Empty, FALSE, names, r), keep)

Targets == Names \cup {Dash}
Namespaces == {Empty, Ns1, Ns2, NsX}

\* the state files and the kubeconfig an invocation may find
InitEngine ==
    /\ contexts = Contexts
    /\ cur \in Contexts \cup {Empty}
    /\ nsOf = [c \in Names |-> Empty]
    /\ prevCtxFile \in {Absent} \cup {File(n) : n \in Names \cup {Empty}}
    /\ nsFiles = [f \in FileNames |-> Absent]
    /\ windows \in BOOLEAN
    /\ hist = << >>

InitParseIdle ==
    /\ argv = << >>
    /\ given = << >>
    /\ interactive = FALSE
    /\ op = [kind |-> "none"]
    /\ parsed = FALSE

\* the invocations that may race
Procs == {1, 2}

\* the value of race.start before the first racing invocation has loaded
NoWorld == [contexts |-> {}, cur |-> Empty, nsOf |-> << >>,
            prevCtxFile |-> Absent, nsFiles |-> << >>]

\* no invocation of the race has started
InitRaceIdle ==
    race = [start |-> NoWorld, overlapped |-> FALSE,
            p |-> [i \in Procs |-> [pc |-> "idle", name |-> Empty,
                                    prev |-> Empty]]]

Init == InitEngine /\ InitParseIdle /\ InitRaceIdle

\* sequences of context switches, swap-backs and unsets
Next ==
    \/ \E t \in Targets : SwitchOp_Run(t, Empty, FALSE, HistLen)
    \/ UnsetOp_Run(HistLen)

Spec == Init /\ [][Next]_vars

\* a first use: no previous context has been recorded yet
InitFresh == Init /\ readLastContext(prevCtxFile) = Empty

SpecFresh == InitFresh /\ [][Next]_vars

\* invocations with and without a requested namespace
NextNs ==
    \/ \E t \in Targets, n \in Namespaces, q \in BOOLEAN :
          SwitchOp_Run(t, n, q, 1)
    \/ UnsetOp_Run(1)

SpecNs == Init /\ [][NextNs]_vars

\* the sequences of i names over S, for i up to n
SeqsUpTo(S, n) == UNION {[1..i -> S] : i \in 1..n}

DeleteNames == Names \cup {Dot}

\* delete invocations, one after the other
NextDelete ==
    \E names \in SeqsUpTo(DeleteNames, MaxNames) : DeleteOp_Run(names, 1)

SpecDelete == Init /\ [][NextDelete]_vars

\* the tokens parseArgs is given
Tokens == {FlagN, FlagNamespace, FlagD, FlagH, FlagU, FlagX, Dash, CtxZ, Ns1,
           Empty, RenameXZ}

\* one call of parseArgs
ParseArgs ==
    /\ ~parsed
    /\ LET r == parseArgs(argv, interactive) IN
          /\ op' = r.op
          /\ argv' = r.argv
    /\ parsed' = TRUE
    /\ UNCHANGED <<given, interactive, engineVars, race>>

InitParse ==
    /\ contexts = Contexts /\ cur = Empty
    /\ nsOf = [c \in Names |-> Empty]
    /\ prevCtxFile = Absent
    /\ nsFiles = [f \in FileNames |-> Absent]
    /\ windows = FALSE
    /\ hist = << >>
    /\ argv \in {<< >>} \cup SeqsUpTo(Tokens, MaxArgs)
    /\ given = argv
    /\ interactive \in BOOLEAN
    /\ op = [kind |-> "none"]
    /\ parsed = FALSE
    /\ InitRaceIdle

NextParse == ParseArgs

SpecParse == InitParse /\ [][NextParse]_vars

----------------------------------------------------------------------------
(* Two switch invocations at the same time, a step of one at a time        *)

\* some other invocation has parsed the kubeconfig and not yet finished
InFlight(i) == \E j \in Procs \ {i} : race.p[j].pc \in {"loaded", "saved"}

\* invocation i parses the kubeconfig and finds its target
RaceLoad(i, name) ==
    /\ race.p[i].pc = "idle"
    /\ ctxLoad(World, name).exists
    /\ race' = [race EXCEPT !.p[i] = [pc |-> "loaded", name |-> name,
                                      prev |-> ctxLoad(World, name).prev],
                            !.overlapped = @ \/ InFlight(i),
                            !.start = IF \A j \in Procs : race.p[j].pc = "idle"
                                      THEN World ELSE @]
    /\ UNCHANGED <<engineVars, parseVars>>

\* invocation i saves the kubeconfig
RaceSave(i) ==
    /\ race.p[i].pc = "loaded"
    /\ cur' = ctxSave(World, race.p[i].name).cur
    /\ race' = [race EXCEPT !.p[i].pc = "saved"]
    /\ UNCHANGED <<contexts, nsOf, prevCtxFile, nsFiles, windows, hist,
                   parseVars>>

\* invocation i writes the previous-context file and returns
RaceRecord(i) ==
    /\ race.p[i].pc = "saved"
    /\ prevCtxFile' =
          ctxRecord(World, race.p[i].prev, race.p[i].name).prevCtxFile
    /\ race' = [race EXCEPT !.p[i].pc = "done"]
    /\ UNCHANGED <<contexts, cur, nsOf, nsFiles, windows, hist, parseVars>>

NextRace ==
    \E i \in Procs :
        \/ \E name \in Contexts : RaceLoad(i, name)
        \/ RaceSave(i)
        \/ RaceRecord(i)

SpecRace == Init /\ [][NextRace]_vars

----------------------------------------------------------------------------
(* Properties of the switch engine                                         *)

HistN == Len(hist)
Last == hist[HistN]
IsSwitchTo(e, name) == e.kind = "switch" /\ e.target = name /\ e.ns = Empty
IsSwap(e) == IsSwitchTo(e, Dash)
\* the entry is a switch to the context that was already active
IsNoOpSwitch(e) ==
    e.kind = "switch" /\ e.ns = Empty /\ e.target # Dash /\ e.target # Empty
        /\ e.target = e.pre.cur

\* switch(A), switch(B), swap-back were the last three invocations, A # B
\* both existing
C1_Case ==
    /\ HistN = 3
    /\ \E a \in hist[1].pre.contexts, b \in hist[1].pre.contexts :
          a # b /\ IsSwitchTo(hist[1], a) /\ IsSwitchTo(hist[2], b)
    /\ IsSwap(hist[3])

\* C1: for existing contexts A # B and any starting state, switch(A) then
\* switch(B) then swap-back all succeed and leave A active.
C1_SwitchSwitchSwap ==
    C1_Case =>
        /\ \A i \in 1..3 : hist[i].err = ""
        /\ cur = hist[1].target

C1_Witness ==
    C1_Case /\ cur = hist[1].target /\ hist[1].pre.cur = Empty
        /\ hist[1].pre.prevCtxFile = File(CtxZ)

\* the last two invocations were swap-backs and the first of them succeeded
C2_Case ==
    /\ HistN >= 2
    /\ IsSwap(hist[HistN - 1]) /\ hist[HistN - 1].err = ""
    /\ IsSwap(Last)

\* C2 as stated: a swap-back that succeeded from active context X is undone
\* by a second swap-back, which succeeds and makes X active again.
C2_ToggleAnyState ==
    C2_Case => Last.err = "" /\ cur = hist[HistN - 1].pre.cur

\* C2 as amended: the same, when some context X was active before the first
\* swap-back (the active pointer was not empty).
C2_Toggle ==
    (C2_Case /\ hist[HistN - 1].pre.cur # Empty) =>
        Last.err = "" /\ cur = hist[HistN - 1].pre.cur

C2_Witness ==
    /\ C2_Case /\ hist[HistN - 1].pre.cur # Empty
    /\ hist[HistN - 1].ctx # hist[HistN - 1].pre.cur
    /\ Last.err = ""
    /\ cur = hist[HistN - 1].pre.cur

\* C3: switch(A) while A is active succeeds, keeps A active and leaves the
\* previous-context file as it was; a swap-back that follows it does what it
\* would have done without the no-op switch.
C3_NoOpKeepsRecord ==
    /\ (HistN >= 1 /\ IsNoOpSwitch(Last)) =>
          /\ Last.err = ""
          /\ cur = Last.target
          /\ prevCtxFile = Last.pre.prevCtxFile
    /\ (HistN >= 2 /\ IsNoOpSwitch(hist[HistN - 1]) /\ IsSwap(Last)) =>
          LET direct == swapContext(hist[HistN - 1].pre) IN
          /\ Last.err = direct.err
          /\ World = direct.w

C3_Witness ==
    /\ HistN >= 2 /\ IsNoOpSwitch(hist[HistN - 1]) /\ IsSwap(Last)
    /\ Last.err = ""
    /\ cur # hist[HistN - 1].target
    /\ File(cur) = hist[HistN - 1].pre.prevCtxFile

\* the last invocation was a swap-back that found no previous context
C4_Case ==
    /\ HistN >= 1 /\ IsSwap(Last)
    /\ (~Last.pre.prevCtxFile.exists \/ Last.pre.prevCtxFile.data = Empty)

\* C4: swap-back with an empty or absent previous-context file fails with
\* NoHistory and changes neither the active pointer nor the file, however
\* many no-op switches ran before it.
C4_SwapNoHistory ==
    C4_Case =>
        /\ Last.err = "NoHistory"
        /\ World = Last.pre
        /\ Last.cfgSaves = 0 /\ Last.ctxFileWrites = 0

C4_Witness ==
    /\ C4_Case /\ HistN = 3
    /\ IsNoOpSwitch(hist[1]) /\ IsNoOpSwitch(hist[2])
    /\ hist[1].err = "" /\ hist[2].err = ""
    /\ ~Last.pre.prevCtxFile.exists
    /\ Last.err = "NoHistory"

C4_WitnessEmptyFile ==
    C4_Case /\ Last.pre.prevCtxFile = File(Empty) /\ Last.err = "NoHistory"

\* the last invocation was a switch to a name that is no context
C5_Case ==
    /\ HistN >= 1 /\ Last.kind = "switch" /\ Last.ns = Empty
    /\ Last.target # Dash
    /\ Last.target \notin Last.pre.contexts

\* C5: switch(name) for an unknown name fails with NotFound; the active
\* pointer, the configuration (never saved) and the previous-context file
\* are as before.
C5_SwitchUnknown ==
    C5_Case =>
        /\ Last.err = "NotFound"
        /\ World = Last.pre
        /\ Last.cfgSaves = 0 /\ Last.ctxFileWrites = 0

C5_Witness ==
    C5_Case /\ Last.err = "NotFound" /\ cur # Empty /\ prevCtxFile.exists

\* the last invocation reached switchNamespace (its context switch
\* succeeded) and the existence check did not pass
C6_Case ==
    /\ HistN >= 1 /\ Last.kind = "switch" /\ Last.ns # Empty
    /\ Last.err \notin {"NotFound", "NoHistory"}
    /\ (Last.queryFails \/ Last.ns \notin ClusterNamespaces)

\* C6: switchNamespace with the existence check on, for a namespace the
\* cluster reports absent, returns NamespaceNotFound, and QueryError when the
\* check itself fails; the namespace of the context and its
\* previous-namespace file are unchanged.
C6_NamespaceNotFound ==
    C6_Case =>
        /\ Last.err = IF Last.queryFails THEN "QueryError"
                      ELSE "NamespaceNotFound"
        /\ nsOf = Last.pre.nsOf
        /\ nsFiles = Last.pre.nsFiles
        /\ Last.nsFileWrites = 0

C6_Witness ==
    /\ C6_Case /\ ~Last.queryFails /\ Last.err = "NamespaceNotFound"
    /\ nsOf[Last.ctx] = Ns1
    /\ nsFiles[NSFilePath(Last.ctx, windows)] = File(Ns2)

C6_WitnessQueryError ==
    /\ C6_Case /\ Last.queryFails /\ Last.err = "QueryError"
    /\ Last.ns \in ClusterNamespaces
    /\ nsOf[Last.ctx] # Empty

\* C7: a Switch invocation that reports failure leaves the active pointer,
\* every namespace, the previous-context file and the previous-namespace
\* files as they were before the invocation.
C7_FailureChangesNothing ==
    (HistN >= 1 /\ Last.kind = "switch" /\ Last.err # "") => World = Last.pre

----------------------------------------------------------------------------
(* Properties of delete                                                    *)

IsDelete(e) == e.kind = "delete"
\* the context the i-th name of a delete stands for
Resolve(e, i) == IF e.names[i] = Dot THEN e.pre.cur ELSE e.names[i]
\* the i-th name is a context when its turn comes, if every name before it
\* was attempted
ExistsAtTurn(e, i) ==
    /\ Resolve(e, i) \in e.pre.contexts
    /\ \A j \in 1..(i - 1) : Resolve(e, j) # Resolve(e, i)
\* the position of the first name that is no context, Len + 1 if none
FirstMissing(e) ==
    LET bad == {i \in 1..Len(e.names) : ~ExistsAtTurn(e, i)} IN
    IF bad = {} THEN Len(e.names) + 1
    ELSE CHOOSE i \in bad : \A j \in bad : i <= j

C9_Case ==
    /\ HistN >= 1 /\ IsDelete(Last) /\ Len(Last.names) = 3
    /\ Last.names[1] \in Last.pre.contexts
    /\ Last.names[3] \in Last.pre.contexts
    /\ Last.names[1] # Last.names[3]
    /\ Last.names[2] \in Names \ Last.pre.contexts

----------------------------------------------------------------------------
(* Properties of the argument resolver                                     *)

\* a token that can stand for a context name in C10
IsContextToken(c) == ~HasDashPrefix(c) /\ ~parseRenameSyntax(c).ok

\* parseArgs was given [f, n, c] or [c, f, n]
C10_Case ==
    /\ parsed /\ Len(given) = 3
    /\ \/ /\ IsNamespaceFlag(given[1]) /\ given[2] # Empty
          /\ IsContextToken(given[3])
       \/ /\ IsContextToken(given[1]) /\ IsNamespaceFlag(given[2])
          /\ given[3] # Empty

\* C10: for a context token c, a non-empty namespace n and either spelling f
\* of the namespace flag, [f, n, c] and [c, f, n] both resolve to
\* Switch{target: c, namespace: n}.
C10_FlagOrderIndependent ==
    C10_Case =>
        IF IsNamespaceFlag(given[1])
        THEN op = SwitchOp(given[3], given[2])
        ELSE op = SwitchOp(given[1], given[3])

C10_Witness ==
    /\ parsed /\ given = <<CtxZ, FlagNamespace, Ns1>>
    /\ op = SwitchOp(CtxZ, Ns1)

C10_WitnessFlagFirst ==
    /\ parsed /\ given = <<FlagN, Ns1, CtxZ>>
    /\ op = SwitchOp(CtxZ, Ns1)

\* the positions of the namespace flags among the given tokens
FlagPositions == {i \in 1..Len(given) : IsNamespaceFlag(given[i])}
\* the position of the first of them (0 when there is none)
FirstFlag ==
    IF FlagPositions = {} THEN 0
    ELSE CHOOSE i \in FlagPositions : \A j \in FlagPositions : i <= j
\* parseArgs got past the delete test and found a namespace flag with a
\* token after it
FlagWithValue ==
    /\ parsed /\ Len(given) >= 1 /\ given[1] # FlagD
    /\ FirstFlag # 0 /\ FirstFlag < Len(given)
\* the given tokens without the first namespace flag and the token after it
Rest ==
    [k \in 1..(Len(given) - 2) |->
        IF k < FirstFlag THEN given[k] ELSE given[k + 2]]

\* C11: when the namespace flag was found and no token remains once the flag
\* and its value are removed, parseArgs returns Unsupported ("context name
\* is required when using -n flag"), whatever the value token is.
C11_BareNamespaceRejected ==
    (FlagWithValue /\ Len(given) = 2) =>
        op = UnsupportedOp("context name is required")

\* the first namespace flag is the last token, and "-d" is not the first
C12_Case ==
    /\ parsed /\ Len(given) >= 1 /\ given[1] # FlagD
    /\ FirstFlag = Len(given)

\* C12: when the first token is not "-d" and the first namespace flag is the
\* last token, parseArgs returns Unsupported ("requires a namespace
\* argument"), whatever the tokens before it are.
C12_FlagNeedsValue ==
    C12_Case => op = UnsupportedOp("requires a namespace argument")

C12_Witness ==
    /\ C12_Case /\ given = <<FlagH, CtxZ, FlagNamespace>>
    /\ op = UnsupportedOp("requires a namespace argument")

\* "-d" is the first token and other tokens follow
C13_Case == parsed /\ Len(given) >= 2 /\ given[1] = FlagD

\* C13: ["-d", t1, ..., tk] with k >= 1 resolves to Delete of exactly
\* [t1, ..., tk], order and duplicates kept, also when some ti is a
\* namespace flag or another flag; nothing is taken as a namespace.
C13_DeleteTakesAllTokens ==
    C13_Case =>
        /\ op.kind = "Delete"
        /\ Len(op.names) = Len(given) - 1
        /\ \A k \in 1..Len(op.names) : op.names[k] = given[k + 1]
        /\ op.namespace = Empty
        /\ argv = given

C13_Witness ==
    /\ C13_Case /\ given = <<FlagD, FlagN, Ns1, FlagN>>
    /\ op.names = <<FlagN, Ns1, FlagN>>

\* C14: when "-d" is not first, exactly the first namespace flag and the
\* token after it are removed and the other tokens keep their order: more
\* than one token left gives Unsupported ("too many arguments"), one context
\* token left gives Switch with the first flag's value, and tokens holding a
\* second namespace flag that is not the first flag's value never give
\* Switch.
C14_OnlyFirstFlagConsumed ==
    FlagWithValue =>
        /\ Len(Rest) > 1 => op = UnsupportedOp("too many arguments")
        /\ (Len(Rest) = 1 /\ IsContextToken(Rest[1]))
              => op = SwitchOp(Rest[1], given[FirstFlag + 1])
        /\ (\E j \in FlagPositions : j > FirstFlag + 1) => op.kind # "Switch"

C14_Witness ==
    /\ FlagWithValue /\ given = <<FlagN, Ns1, FlagNamespace, CtxZ>>
    /\ op = UnsupportedOp("too many arguments")

C14_WitnessFlagAsValue ==
    /\ FlagWithValue /\ given = <<FlagN, FlagN, CtxZ>>
    /\ op = SwitchOp(CtxZ, FlagN)

\* C15: after parseArgs returns, the caller's token sequence holds the
\* tokens it held before the call, in the same places.
C15_CallerArgvUnchanged ==
    parsed => argv = given

----------------------------------------------------------------------------
(* Properties of one invocation's file traffic and of the namespace files  *)

\* C16: one invocation loads and saves the configuration at most once and
\* writes each state file it touches at most once.
C16_OneCyclePerInvocation ==
    (HistN >= 1 /\ Last.kind \in {"switch", "unset"}) =>
        /\ Last.cfgLoads <= 1 /\ Last.cfgSaves <= 1
        /\ Last.ctxFileWrites <= 1 /\ Last.nsFileWrites <= 1

\* the previous-namespace record of a context, in a world
NSRecord(w, c) == w.nsFiles[NSFilePath(c, windows)]

\* the last invocation wrote the previous-namespace file of its context
WroteNSFile ==
    HistN >= 1 /\ Last.kind = "switch" /\ Last.err = ""
        /\ Last.nsFileWrites = 1

\* C17: distinct context names have distinct previous-namespace files on
\* every platform, so writing the record of one context never touches the
\* record of another.
C17_NoSharedStateFile ==
    WroteNSFile =>
        \A d \in Names \ {Last.ctx} :
            /\ NSFilePath(d, windows) # NSFilePath(Last.ctx, windows)
            /\ NSRecord(World, d) = NSRecord(Last.pre, d)

\* C18: a successful Switch{target, n} sets the namespace of the context
\* that became active to n and no other namespace; that context's
\* previous-namespace record is overwritten with its former namespace iff
\* that differs from n; no other context's record changes.
C18_NamespaceSwitchFrame ==
    (HistN >= 1 /\ Last.kind = "switch" /\ Last.ns # Empty /\ Last.err = "") =>
        LET c == Last.ctx IN
        /\ c = cur /\ nsOf[c] = Last.ns
        /\ \A d \in Names \ {c} : nsOf[d] = Last.pre.nsOf[d]
        /\ NSRecord(World, c) =
              IF Last.pre.nsOf[c] # Last.ns THEN File(Last.pre.nsOf[c])
              ELSE NSRecord(Last.pre, c)
        /\ \A d \in Names \ {c} : NSRecord(World, d) = NSRecord(Last.pre, d)

\* C19: from an empty previous-context record, after any sequence of
\* switch, swap-back and unset invocations the record is empty or names a
\* context other than the active one; so a swap-back that succeeds changes
\* the active context.
C19_RecordDiffersFromActive ==
    /\ \/ readLastContext(prevCtxFile) = Empty
       \/ prevCtxFile.data \in contexts /\ prevCtxFile.data # cur
    /\ (HistN >= 1 /\ IsSwap(Last) /\ Last.err = "") => cur # Last.pre.cur

C19_Witness ==
    /\ HistN = 3 /\ IsNoOpSwitch(hist[2]) /\ IsSwap(Last) /\ Last.err = ""
    /\ cur # Last.pre.cur
    /\ prevCtxFile = File(Last.pre.cur)

----------------------------------------------------------------------------
(* Properties of racing switch invocations                                 *)

RaceDone == \A i \in Procs : race.p[i].pc = "done"
\* the active context and the previous-context record of a world
Outcome(w) == <<w.cur, w.prevCtxFile>>
\* what the two invocations give when run one after the other, first then
\* second
Serial(first, second) ==
    Outcome(switchContext(switchContext(race.start, first).w, second).w)
SerialOutcomes ==
    {Serial(race.p[1].name, race.p[2].name),
     Serial(race.p[2].name, race.p[1].name)}

\* C20 as stated: when both invocations have returned, the active context
\* and the previous-context record are those of the two invocations run one
\* after the other in some order.
C20_Serializable ==
    RaceDone => Outcome(World) \in SerialOutcomes

\* C20 as amended: the outcome is a serial one when the invocations do not
\* overlap; when they overlap the active context is one of the two targets
\* and the record is the one from before the race or a context that one of
\* the invocations found active, other than its own target.
C20_LastWriterWins ==
    RaceDone =>
        /\ ~race.overlapped => Outcome(World) \in SerialOutcomes
        /\ cur \in {race.p[i].name : i \in Procs}
        /\ \/ prevCtxFile = race.start.prevCtxFile
           \/ \E i \in Procs :
                 /\ race.p[i].prev # race.p[i].name
                 /\ race.p[i].prev \in
                        {race.start.cur} \cup {race.p[j].name : j \in Procs \ {i}}
                 /\ prevCtxFile = File(race.p[i].prev)

C20_Witness ==
    /\ RaceDone /\ race.overlapped
    /\ Outcome(World) \notin SerialOutcomes
    /\ race.p[1].name # race.p[2].name

C20_WitnessSerial ==
    RaceDone /\ ~race.overlapped /\ race.p[1].name # race.p[2].name
        /\ prevCtxFile # race.start.prevCtxFile

====
